---- MODULE Spec2Model ----
(***************************************************************************)
(* DevSpell: the static metrics engine of backend/src/services.            *)
(*                                                                         *)
(*   analyze_code(code)            services/code_analyzer.py               *)
(*   CodeAnalyzer                  services/code_analyzer.py               *)
(*   ComplexityVisitor,                                                    *)
(*   calculate_complexity          services/ast_visitor.py                 *)
(*                                                                         *)
(* The source text is a sequence of characters.  The syntax tree that      *)
(* ast.parse builds for it is a sequence of node records in source         *)
(* (pre-order) order; node 0 is the Module and is not stored.  A program   *)
(* text is the rendering of its tree, one line per statement, so that the  *)
(* line classifier works on the characters and the walkers on the tree.    *)
(***************************************************************************)
EXTENDS Integers, Sequences, FiniteSets, TLC

(***************************************************************************)
(* Bounds of the model.                                                    *)
(***************************************************************************)
\* nodes of a program below its Module node, over every node kind
MaxNodes == 2
\* nodes of a program over the core kinds (def, class, if, boolean operator)
MaxCoreNodes == 3
\* operands of one boolean operator (and/or chain)
MaxOperands == 3
\* comment and blank lines in front of a program
MaxFill == 1
\* nodes of a program that has comment or blank lines in front
MaxFillNodes == 1
\* operators chained in the text on which ast.parse raises RecursionError
\* (some thousands on CPython 3.11; the model keeps the text short)
DeepNest == 2
\* most nodes of a program handed to one of several callers running side by side
MaxCallNodes == 1
\* most names one import statement brings in
MaxNames == 2

(***************************************************************************)
(* Node kinds of the syntax tree (module ast).                             *)
(***************************************************************************)
StmtKinds ==
  {"FunctionDef", "AsyncFunctionDef", "ClassDef", "If", "For", "While",
   "ExceptHandler", "Import", "ImportFrom", "Stmt"}

ExprKinds == {"BoolOp", "comprehension", "Expr"}

AllKinds == StmtKinds \cup ExprKinds

CoreKinds == {"FunctionDef", "ClassDef", "If", "BoolOp"}

\* kinds whose body holds statements ("Stmt" stands for try, with, ...)
BodyKinds ==
  {"Module", "FunctionDef", "AsyncFunctionDef", "ClassDef", "If", "For",
   "While", "ExceptHandler", "Stmt"}

\* kinds that take decorators
DecoratedKinds == {"FunctionDef", "AsyncFunctionDef", "ClassDef"}

\* an import statement holds k names (len(node.names)), a BoolOp k operands
ImportKinds == {"Import", "ImportFrom"}

None == [none |-> TRUE]

Node(kd, par, ops, dec) == [kind |-> kd, parent |-> par, k |-> ops, deco |-> dec]

KindOf(nodes, i) == IF i = 0 THEN "Module" ELSE nodes[i].kind

Ids(nodes) == 0 .. Len(nodes)

\* child nodes in field order, which is source order (ast.iter_child_nodes)
RECURSIVE ChildrenFrom(_, _, _)
ChildrenFrom(nodes, i, j) ==
  IF j > Len(nodes) THEN <<>>
  ELSE (IF nodes[j].parent = i THEN <<j>> ELSE <<>>) \o ChildrenFrom(nodes, i, j + 1)

iter_child_nodes(nodes, i) == ChildrenFrom(nodes, i, i + 1)

RECURSIVE IsAncestorOrSelf(_, _, _)
IsAncestorOrSelf(nodes, a, i) ==
  IF i = a THEN TRUE
  ELSE IF i = 0 THEN FALSE
  ELSE IsAncestorOrSelf(nodes, a, nodes[i].parent)

\* the nodes of the subtree rooted at i
Subtree(nodes, i) == {j \in Ids(nodes) : IsAncestorOrSelf(nodes, i, j)}

RECURSIVE Depth(_, _)
Depth(nodes, i) == IF i = 0 THEN 0 ELSE 1 + Depth(nodes, nodes[i].parent)

(***************************************************************************)
(* The programs of the grammar, built node by node in source order: the    *)
(* parent of the next node is on the path from the last node to the root.  *)
(***************************************************************************)
AllowedKinds(nodes, q) ==
  LET pk == KindOf(nodes, q)
      stm == IF pk \in BodyKinds
             THEN (StmtKinds \ {"ExceptHandler"})
                    \cup (IF pk = "Stmt" THEN {"ExceptHandler"} ELSE {})
             ELSE {}
      exp == IF pk \in {"Module", "Import", "ImportFrom"} THEN {}
             ELSE {"BoolOp", "Expr"}
                    \cup (IF pk = "Expr" THEN {"comprehension"} ELSE {})
  IN  IF pk \in ExprKinds THEN exp ELSE stm \cup exp

\* a decorator is an expression in front of a def or class statement
MayDecorate(nodes, q, kd) ==
  /\ kd \in {"BoolOp", "Expr"}
  /\ KindOf(nodes, q) \in DecoratedKinds
  /\ \A c \in 1 .. Len(nodes) : nodes[c].parent = q => nodes[c].deco

HasRoom(nodes, q) ==
  KindOf(nodes, q) = "BoolOp" => Len(iter_child_nodes(nodes, q)) < nodes[q].k

\* the expressions of a statement (test, arguments, bases) come before its body
BeforeBody(nodes, q, kd) ==
  kd \in ExprKinds => \A c \in 1 .. Len(nodes) : nodes[c].parent = q => nodes[c].kind \in ExprKinds

NextNodes(nodes, kinds) ==
  LET last == Len(nodes)
  IN  { Node(kd, q, ops, dec) :
          q \in {a \in Ids(nodes) : IsAncestorOrSelf(nodes, a, last)},
          kd \in kinds,
          ops \in 0 .. MaxOperands,
          dec \in BOOLEAN }

ValidNode(nodes, nd) ==
  /\ nd.kind \in AllowedKinds(nodes, nd.parent)
  /\ HasRoom(nodes, nd.parent)
  /\ BeforeBody(nodes, nd.parent, nd.kind)
  /\ IF nd.kind = "BoolOp" THEN nd.k >= 2
     ELSE IF nd.kind \in ImportKinds THEN nd.k \in 1 .. MaxNames
     ELSE nd.k = 0
  /\ nd.deco => MayDecorate(nodes, nd.parent, nd.kind)

RECURSIVE Programs(_, _)
Programs(n, kinds) ==
  IF n = 0 THEN {<<>>}
  ELSE LET smaller == Programs(n - 1, kinds)
       IN  smaller \cup
             UNION { { Append(p, nd) : nd \in {x \in NextNodes(p, kinds) : ValidNode(p, x)} } :
                     p \in {s \in smaller : Len(s) = n - 1} }

(***************************************************************************)
(* Source positions, as the parser records them in lineno / end_lineno.    *)
(* Every statement starts a line of its own, every decorator takes the     *)
(* line in front of its statement, other expressions sit on the line of    *)
(* the node that holds them.                                               *)
(***************************************************************************)
StmtIds(nodes) == {j \in 1 .. Len(nodes) : nodes[j].kind \in StmtKinds}

DecoIds(nodes) == {j \in 1 .. Len(nodes) : nodes[j].deco}

RECURSIVE LineOf(_, _, _)
LineOf(nodes, base, i) ==
  IF nodes[i].kind \in StmtKinds
  THEN base + Cardinality({j \in StmtIds(nodes) : j <= i})
            + Cardinality({d \in DecoIds(nodes) : nodes[d].parent <= i})
  ELSE IF nodes[i].deco
  THEN LET q == nodes[i].parent
       IN  base + Cardinality({j \in StmtIds(nodes) : j < q})
                + Cardinality({d \in DecoIds(nodes) : nodes[d].parent < q})
                + Cardinality({d \in DecoIds(nodes) : nodes[d].parent = q /\ d <= i})
  ELSE LineOf(nodes, base, nodes[i].parent)

RECURSIVE SetMax(_)
SetMax(S) ==
  LET x == CHOOSE y \in S : TRUE
  IN  IF S = {x} THEN x
      ELSE LET m == SetMax(S \ {x}) IN IF x > m THEN x ELSE m

EndLineOf(nodes, base, i) ==
  SetMax({LineOf(nodes, base, j) : j \in Subtree(nodes, i)})

\* the tree as ast.parse returns it: every node with its position
Located(nodes, base) ==
  [i \in 1 .. Len(nodes) |->
     [kind |-> nodes[i].kind, parent |-> nodes[i].parent, k |-> nodes[i].k,
      deco |-> nodes[i].deco, lineno |-> LineOf(nodes, base, i),
      end_lineno |-> EndLineOf(nodes, base, i)]]

(***************************************************************************)
(* The text of a program: the rendering that ast.parse reads back.         *)
(***************************************************************************)
Letter(kd) ==
  CASE kd = "FunctionDef" -> "d"
    [] kd = "AsyncFunctionDef" -> "a"
    [] kd = "ClassDef" -> "c"
    [] kd = "If" -> "i"
    [] kd = "For" -> "f"
    [] kd = "While" -> "w"
    [] kd = "ExceptHandler" -> "e"
    [] kd = "Import" -> "m"
    [] kd = "ImportFrom" -> "r"
    [] kd = "Stmt" -> "s"
    [] kd = "BoolOp" -> "&"
    [] kd = "comprehension" -> "~"
    [] kd = "Expr" -> "x"

RECURSIVE Repeat(_, _)
Repeat(c, n) == IF n <= 0 THEN <<>> ELSE <<c>> \o Repeat(c, n - 1)

RECURSIVE ExprText(_, _)
RECURSIVE ExprTexts(_, _)
ExprText(nodes, e) ==
  <<Letter(nodes[e].kind)>> \o Repeat("&", nodes[e].k - 2)
    \o ExprTexts(nodes, iter_child_nodes(nodes, e))

ExprTexts(nodes, es) ==
  IF es = <<>> THEN <<>>
  ELSE <<"(">> \o ExprText(nodes, Head(es)) \o <<")">> \o ExprTexts(nodes, Tail(es))

SelectIds(nodes, ids, dec) ==
  SelectSeq(ids, LAMBDA c : nodes[c].kind \in ExprKinds /\ nodes[c].deco = dec)

RECURSIVE DecoLines(_, _, _)
DecoLines(nodes, ind, ds) ==
  IF ds = <<>> THEN <<>>
  ELSE <<ind \o <<"@">> \o ExprText(nodes, Head(ds))>> \o DecoLines(nodes, ind, Tail(ds))

StmtLines(nodes, i) ==
  LET ind  == Repeat(" ", Depth(nodes, i) - 1)
      kids == iter_child_nodes(nodes, i)
  IN  DecoLines(nodes, ind, SelectIds(nodes, kids, TRUE))
        \o <<ind \o <<Letter(nodes[i].kind)>>
                 \o (IF nodes[i].kind \in ImportKinds
                     THEN Repeat(",", nodes[i].k - 1) ELSE <<>>)
                 \o ExprTexts(nodes, SelectIds(nodes, kids, FALSE))>>

RECURSIVE ProgramLines(_, _)
ProgramLines(nodes, i) ==
  IF i > Len(nodes) THEN <<>>
  ELSE (IF nodes[i].kind \in StmtKinds THEN StmtLines(nodes, i) ELSE <<>>)
         \o ProgramLines(nodes, i + 1)

RECURSIVE JoinLines(_, _)
JoinLines(ls, nl) ==
  IF ls = <<>> THEN <<>>
  ELSE IF Len(ls) = 1 THEN Head(ls) \o (IF nl THEN <<"\n">> ELSE <<>>)
  ELSE Head(ls) \o <<"\n">> \o JoinLines(Tail(ls), nl)

\* comment lines and blank lines; the last one holds a form feed
FillerLines == {<<>>, <<" ">>, <<"#">>, <<" ", "#">>, <<"\f">>}

RECURSIVE Fillers(_)
Fillers(n) ==
  IF n = 0 THEN {<<>>}
  ELSE LET smaller == Fillers(n - 1)
       IN  smaller \cup { Append(f, l) : f \in {s \in smaller : Len(s) = n - 1},
                                         l \in FillerLines }

(***************************************************************************)
(* str.strip, str.splitlines, str.startswith and str(int), character by    *)
(* character.                                                              *)
(***************************************************************************)
IsSpace(c) == c \in {" ", "\n", "\t", "\f"}

RECURSIVE lstrip(_)
lstrip(s) == IF s # <<>> /\ IsSpace(Head(s)) THEN lstrip(Tail(s)) ELSE s

RECURSIVE rstrip(_)
rstrip(s) ==
  IF s # <<>> /\ IsSpace(s[Len(s)]) THEN rstrip(SubSeq(s, 1, Len(s) - 1)) ELSE s

strip(s) == rstrip(lstrip(s))

startswith(s, c) == s # <<>> /\ Head(s) = c

RECURSIVE SplitFrom(_, _, _)
SplitFrom(s, cur, seps) ==
  IF s = <<>> THEN (IF cur = <<>> THEN <<>> ELSE <<cur>>)
  ELSE IF Head(s) \in seps THEN <<cur>> \o SplitFrom(Tail(s), <<>>, seps)
  ELSE SplitFrom(Tail(s), Append(cur, Head(s)), seps)

\* str.splitlines ends a line at a line feed and at a form feed alike
splitlines(s) == SplitFrom(s, <<>>, {"\n", "\f"})

\* the split of ast.get_source_segment, which ends a line at a line feed only
splitlines_no_ff(s) == SplitFrom(s, <<>>, {"\n"})

Digit(d) == <<"0", "1", "2", "3", "4", "5", "6", "7", "8", "9">>[d + 1]

RECURSIVE str(_)
str(n) == IF n < 10 THEN <<Digit(n)>> ELSE str(n \div 10) \o <<Digit(n % 10)>>

(***************************************************************************)
(* The inputs: program texts with the tree ast.parse builds for them,      *)
(* texts the parser rejects with the line and message it reports, and a    *)
(* text nested so deeply that ast.parse raises RecursionError.  fault      *)
(* tells, per function definition, whether re-analysing its source         *)
(* segment works ("ok"), ast.get_source_segment yields nothing             *)
(* ("no_segment", the node has no end_lineno: 0 stands for the missing     *)
(* value) or calculate_complexity raises ("raises").                       *)
(***************************************************************************)
Parsed(nodes) == [exc |-> "none", nodes |-> nodes, lineno |-> 0, msg |-> ""]

Rejected(line, message) ==
  [exc |-> "SyntaxError", nodes |-> <<>>, lineno |-> line, msg |-> message]

Exhausted ==
  [exc |-> "RecursionError", nodes |-> <<>>, lineno |-> 0,
   msg |-> "maximum recursion depth exceeded during ast construction"]

FunctionIds(nodes) == {i \in 1 .. Len(nodes) : nodes[i].kind = "FunctionDef"}

NoFault(nodes) == [i \in FunctionIds(nodes) |-> "ok"]

Program(p, fill, nl, flt) ==
  [text   |-> JoinLines(fill \o ProgramLines(p, 1), nl),
   parsed |-> Parsed(Located(p, Len(fill))),
   fault  |-> flt]

\* the same program with a comment behind what its last line holds
Commented(src) == [src EXCEPT !.text = @ \o <<" ", "#">>]

\* the lines the parser rejects, with its message
BadLines ==
  { <<<<"d", "(">>, "'(' was never closed">>,
    <<<<"x", " ", "x">>, "invalid syntax">>,
    <<<<" ", "x">>, "unexpected indent">> }

Malformed(fill, bad, nl) ==
  [text   |-> JoinLines(Append(fill, bad[1]), nl),
   parsed |-> Rejected(Len(fill) + 1, bad[2]),
   fault  |-> <<>>]

RECURSIVE Chain(_)
Chain(n) == IF n = 0 THEN <<"x">> ELSE Chain(n - 1) \o <<"+", "x">>

TooDeep == [text |-> Chain(DeepNest), parsed |-> Exhausted, fault |-> <<>>]

PlainPrograms == Programs(MaxNodes, AllKinds) \cup Programs(MaxCoreNodes, CoreKinds)

Inputs ==
  { Program(p, <<>>, TRUE, NoFault(p)) : p \in PlainPrograms }
    \cup { Program(p, f, nl, NoFault(p)) :
             p \in Programs(MaxFillNodes, AllKinds), f \in Fillers(MaxFill),
             nl \in BOOLEAN }
    \cup { Commented(Program(p, <<>>, FALSE, NoFault(p))) :
             p \in Programs(MaxFillNodes, AllKinds) }
    \cup { Malformed(f, b, nl) : f \in Fillers(MaxFill), b \in BadLines, nl \in BOOLEAN }
    \cup {TooDeep}

\* a function whose segment is missing is one whose node has no end position
WithoutEnd(src) ==
  [src EXCEPT !.parsed.nodes =
     [i \in 1 .. Len(@) |->
        IF i \in DOMAIN src.fault /\ src.fault[i] = "no_segment"
        THEN [@[i] EXCEPT !.end_lineno = 0] ELSE @[i]]]

Faults(p) == [FunctionIds(p) -> {"ok", "no_segment", "raises"}]

FaultyInputs ==
  UNION { { WithoutEnd(Program(p, <<>>, TRUE, flt)) : flt \in Faults(p) } :
          p \in Programs(MaxCoreNodes, CoreKinds) }
    \cup UNION { { WithoutEnd(Program(p, f, nl, flt)) :
                     flt \in Faults(p), f \in Fillers(MaxFill), nl \in BOOLEAN } :
                 p \in Programs(MaxFillNodes, CoreKinds) }

\* ast.parse
ast_parse(src) == src.parsed

(***************************************************************************)
(* ComplexityVisitor (ast_visitor.py).  visit(nodes, i) is what visiting   *)
(* node i adds to self.complexity.                                         *)
(***************************************************************************)
ComplexityVisitorInit == 1

RECURSIVE visit(_, _)
RECURSIVE VisitAll(_, _)

\* NodeVisitor.generic_visit: visit every child node
\* a visitor that does not enter the bodies of functions and classes
generic_visit_Shallow(nodes, i) ==
  IF KindOf(nodes, i) \in {"FunctionDef", "AsyncFunctionDef", "ClassDef"} THEN 0
  ELSE VisitAll(nodes, iter_child_nodes(nodes, i))

generic_visit(nodes, i) == VisitAll(nodes, iter_child_nodes(nodes, i))

VisitAll(nodes, kids) ==
  IF kids = <<>> THEN 0 ELSE visit(nodes, Head(kids)) + VisitAll(nodes, Tail(kids))

\* visit_If that counts the branch and does not descend into it
visit_If_NoDescent(nodes, i) == 1

visit_If(nodes, i) == 1 + generic_visit(nodes, i)

visit_For(nodes, i) == 1 + generic_visit(nodes, i)

visit_While(nodes, i) == 1 + generic_visit(nodes, i)

visit_ExceptHandler(nodes, i) == 1 + generic_visit(nodes, i)

visit_BoolOp(nodes, i) == (nodes[i].k - 1) + generic_visit(nodes, i)

visit_comprehension(nodes, i) == 1 + generic_visit(nodes, i)

\* NodeVisitor.visit: dispatch on the class of the node
visit(nodes, i) ==
  LET kd == KindOf(nodes, i)
  IN  CASE kd = "If" -> visit_If(nodes, i)
        [] kd = "For" -> visit_For(nodes, i)
        [] kd = "While" -> visit_While(nodes, i)
        [] kd = "ExceptHandler" -> visit_ExceptHandler(nodes, i)
        [] kd = "BoolOp" -> visit_BoolOp(nodes, i)
        [] kd = "comprehension" -> visit_comprehension(nodes, i)
        [] OTHER -> generic_visit(nodes, i)

\* calculate_complexity whose visitor starts from 0
calculate_complexity_NoBaseline(src) ==
  LET t == ast_parse(src)
  IN  IF t.exc # "none" THEN [exc |-> t.exc, value |-> 0]
      ELSE [exc |-> "none", value |-> visit(t.nodes, 0)]

\* a calculate_complexity whose parser wants the text to end with a newline
calculate_complexity_NeedsNewline(src) ==
  LET t == ast_parse(src)
  IN  IF t.exc # "none" THEN [exc |-> t.exc, value |-> 0]
      ELSE IF src.text # <<>> /\ src.text[Len(src.text)] # "\n"
      THEN [exc |-> "SyntaxError", value |-> 0]
      ELSE [exc |-> "none", value |-> ComplexityVisitorInit + visit(t.nodes, 0)]

\* calculate_complexity(code): the value returned, or the exception raised
calculate_complexity(src) ==
  LET t == ast_parse(src)
  IN  IF t.exc # "none" THEN [exc |-> t.exc, value |-> 0]
      ELSE [exc |-> "none", value |-> ComplexityVisitorInit + visit(t.nodes, 0)]

(***************************************************************************)
(* ast.walk and ast.get_source_segment.                                    *)
(***************************************************************************)
\* one turn of the loop of ast.walk: popleft, then extend with the children
\* a walk over the statements of the module body only ("for node in tree.body")
WalkRest_TopLevel(nodes, todo) ==
  Tail(todo) \o (IF Head(todo) = 0 THEN iter_child_nodes(nodes, 0) ELSE <<>>)

WalkRest(nodes, todo) == Tail(todo) \o iter_child_nodes(nodes, Head(todo))

RECURSIVE WalkFrom(_, _)
WalkFrom(nodes, todo) ==
  IF todo = <<>> THEN <<>>
  ELSE <<Head(todo)>> \o WalkFrom(nodes, WalkRest(nodes, todo))

\* the nodes in the order ast.walk(tree) yields them
ast_walk(nodes) == WalkFrom(nodes, <<0>>)

\* a segment that leaves out the functions defined inside the function
SegmentIds_OwnBody(nodes, i) ==
  { j \in Subtree(nodes, i) :
      /\ ~ \E d \in DecoIds(nodes) : nodes[d].parent = i /\ IsAncestorOrSelf(nodes, d, j)
      /\ ~ \E g \in FunctionIds(nodes) :
             g # i /\ IsAncestorOrSelf(nodes, i, g) /\ IsAncestorOrSelf(nodes, g, j) }

\* a segment that starts at the first decorator instead of the def keyword
SegmentIds_WithDecorators(nodes, i) == Subtree(nodes, i)

\* the nodes of the text from the def keyword of node i to the end of its body
SegmentIds(nodes, i) ==
  { j \in Subtree(nodes, i) :
      ~ \E d \in DecoIds(nodes) : nodes[d].parent = i /\ IsAncestorOrSelf(nodes, d, j) }

Rank(seq, x) == CHOOSE m \in 1 .. Len(seq) : seq[m] = x

SegmentNodes(nodes, i) ==
  LET keep == SelectSeq([j \in 1 .. Len(nodes) |-> j],
                        LAMBDA j : j \in SegmentIds(nodes, i))
  IN  [m \in 1 .. Len(keep) |->
         LET j == keep[m]
         IN  [nodes[j] EXCEPT
                !.parent = IF j = i THEN 0 ELSE Rank(keep, nodes[j].parent),
                !.lineno = nodes[j].lineno - nodes[i].lineno + 1,
                !.end_lineno = IF nodes[j].end_lineno = 0 THEN 0
                               ELSE nodes[j].end_lineno - nodes[i].lineno + 1]]

\* the text of lines lineno .. end_lineno, the first cut at col_offset
SegmentText(text, nodes, i) ==
  LET ls    == splitlines_no_ff(text)
      first == ls[nodes[i].lineno]
      col   == Depth(nodes, i) - 1
  IN  JoinLines(<<SubSeq(first, col + 1, Len(first))>>
                  \o SubSeq(ls, nodes[i].lineno + 1, nodes[i].end_lineno), FALSE)

\* ast.get_source_segment(self.code, node), with what parsing it gives
get_source_segment(src, i) ==
  IF src.fault[i] = "no_segment" THEN None
  ELSE [text   |-> SegmentText(src.text, src.parsed.nodes, i),
        parsed |-> IF src.fault[i] = "raises" THEN Exhausted
                   ELSE Parsed(SegmentNodes(src.parsed.nodes, i)),
        fault  |-> <<>>]

(***************************************************************************)
(* CodeAnalyzer (code_analyzer.py).                                        *)
(***************************************************************************)
count_total_lines(ls) == Len(ls)

\* count_code_lines that drops every line holding a "#" anywhere
RECURSIVE count_code_lines_AnyHash(_)
count_code_lines_AnyHash(ls) ==
  IF ls = <<>> THEN 0
  ELSE (IF strip(Head(ls)) # <<>> /\ SelectSeq(Head(ls), LAMBDA c : c = "#") = <<>>
        THEN 1 ELSE 0) + count_code_lines_AnyHash(Tail(ls))

\* count_code_lines that loops over the characters of the text
RECURSIVE count_code_lines_Chars(_)
count_code_lines_Chars(ls) ==
  IF ls = <<>> THEN 0
  ELSE Len(SelectSeq(Head(ls), LAMBDA c : ~ IsSpace(c) /\ c # "#"))
         + count_code_lines_Chars(Tail(ls))

RECURSIVE count_code_lines(_)
count_code_lines(ls) ==
  IF ls = <<>> THEN 0
  ELSE LET stripped == strip(Head(ls))
       IN  (IF stripped # <<>> /\ ~ startswith(stripped, "#") THEN 1 ELSE 0)
             + count_code_lines(Tail(ls))

CodeAnalysisError(message) == [type |-> "CodeAnalysisError", msg |-> message]

\* an exception the analyzer does not catch leaves as it is
Uncaught(t) == [type |-> t.exc, msg |-> <<t.msg>>]

EmptyMessage == <<"El codigo no puede estar vacio">>

\* a syntax message that reports a fixed text instead of the parser's
SyntaxMessage_Generic(lineno, msg) ==
  <<"Error de sintaxis en linea ">> \o str(lineno) \o <<": ", "invalid syntax">>

SyntaxMessage(lineno, msg) ==
  <<"Error de sintaxis en linea ">> \o str(lineno) \o <<": ", msg>>

ComplexityMessage == <<"Error al calcular complejidad">>

\* the loop body analysing the whole text instead of the function's segment
FunctionInfo_WholeCode(src, i) ==
  LET node     == src.parsed.nodes[i]
      computed == calculate_complexity(src)
  IN  [name       |-> i,
       line_start |-> node.lineno,
       line_end   |-> IF node.end_lineno # 0 THEN node.end_lineno ELSE node.lineno,
       complexity |-> IF computed.exc = "none" THEN computed.value ELSE 1]

\* the loop body without the default of 1: a failure leaves 0
FunctionInfo_NoDefault(src, i) ==
  LET node      == src.parsed.nodes[i]
      func_code == get_source_segment(src, i)
      computed  == IF func_code # None /\ func_code.text # <<>>
                   THEN calculate_complexity(func_code)
                   ELSE [exc |-> "skipped", value |-> 0]
  IN  [name       |-> i,
       line_start |-> node.lineno,
       line_end   |-> IF node.end_lineno # 0 THEN node.end_lineno ELSE node.lineno,
       complexity |-> computed.value]

\* the loop body taking node.end_lineno as it is, without "or node.lineno"
FunctionInfo_NoEndFallback(src, i) ==
  LET node      == src.parsed.nodes[i]
      func_code == get_source_segment(src, i)
      computed  == IF func_code # None /\ func_code.text # <<>>
                   THEN calculate_complexity(func_code)
                   ELSE [exc |-> "skipped", value |-> 0]
  IN  [name       |-> i,
       line_start |-> node.lineno,
       line_end   |-> node.end_lineno,
       complexity |-> IF computed.exc = "none" THEN computed.value ELSE 1]

\* the body of the loop of extract_functions for one function definition
FunctionInfo(src, i) ==
  LET node      == src.parsed.nodes[i]
      func_code == get_source_segment(src, i)
      computed  == IF func_code # None /\ func_code.text # <<>>
                   THEN calculate_complexity(func_code)
                   ELSE [exc |-> "skipped", value |-> 0]
  IN  [name       |-> i,
       line_start |-> node.lineno,
       line_end   |-> IF node.end_lineno # 0 THEN node.end_lineno ELSE node.lineno,
       complexity |-> IF computed.exc = "none" THEN computed.value ELSE 1]

CountKind(nodes, kinds) ==
  Len(SelectSeq(ast_walk(nodes), LAMBDA j : KindOf(nodes, j) \in kinds))

\* a count of the classes among the statements of the module body only
count_classes_TopLevel(nodes) ==
  Len(SelectSeq(iter_child_nodes(nodes, 0), LAMBDA j : KindOf(nodes, j) = "ClassDef"))

count_classes(nodes) == CountKind(nodes, {"ClassDef"})

\* a count of the imported names instead of the import statements
RECURSIVE count_imports_Names(_)
count_imports_Names(nodes) ==
  IF nodes = <<>> THEN 0
  ELSE (IF nodes[Len(nodes)].kind \in ImportKinds THEN nodes[Len(nodes)].k ELSE 0)
         + count_imports_Names(SubSeq(nodes, 1, Len(nodes) - 1))

count_imports(nodes) == CountKind(nodes, {"Import", "ImportFrom"})

\* the dictionary without its functions entry
Metrics_NoFunctions(ls, complexity, funcs, nodes) ==
  [total_lines   |-> count_total_lines(ls),
   code_lines    |-> count_code_lines(ls),
   complexity    |-> complexity,
   num_functions |-> Len(funcs),
   num_classes   |-> count_classes(nodes),
   num_imports   |-> count_imports(nodes)]

Metrics(ls, complexity, funcs, nodes) ==
  [total_lines   |-> count_total_lines(ls),
   code_lines    |-> count_code_lines(ls),
   complexity    |-> complexity,
   num_functions |-> Len(funcs),
   num_classes   |-> count_classes(nodes),
   num_imports   |-> count_imports(nodes),
   functions     |-> funcs]

(***************************************************************************)
(* One call of analyze_code(code), step by step.                           *)
(***************************************************************************)
VARIABLES
  code,              \* the argument of analyze_code
  pc,                \* the statement the call is at
  lines,             \* CodeAnalyzer.lines
  tree,              \* the tree parse_ast returned
  total_complexity,  \* local of CodeAnalyzer.analyze
  todo,              \* the deque of ast.walk inside extract_functions
  functions,         \* local of extract_functions
  result,            \* the dictionary returned to the caller, if any
  error,             \* the exception raised to the caller, if any
  parses,            \* how many times ast.parse ran on the whole text
  response,          \* the HTTP response of the last request, if any
  calls,             \* the frames of the callers that run analyze_code side by side
  analyzers,         \* the CodeAnalyzer instances those callers created
  projects,          \* the rows of table "projects"
  analyses,          \* the rows of table "analysis"
  uuids,             \* how many ids uuid4 has produced
  request            \* the last request to the projects and analyses routers

vars ==
  <<code, pc, lines, tree, total_complexity, todo, functions, result, error, parses,
    response, calls, analyzers, projects, analyses, uuids, request>>

\* what one call of analyze_code leaves alone
others == <<response, calls, analyzers, projects, analyses, uuids, request>>

\* the database before any project or analysis was saved
EmptyStore ==
  /\ projects = {}
  /\ analyses = {}
  /\ uuids = 0
  /\ request = None

Begin(inputs, at) ==
  /\ code \in inputs
  /\ pc = at
  /\ lines = <<>>
  /\ tree = None
  /\ total_complexity = 0
  /\ todo = <<>>
  /\ functions = <<>>
  /\ result = None
  /\ error = None
  /\ parses = 0

Start(inputs) ==
  /\ Begin(inputs, "analyze_code")
  /\ response = None
  /\ calls = <<>>
  /\ analyzers = <<>>
  /\ EmptyStore

Init == Start(Inputs)

InitFault == Start(FaultyInputs)

Raise(e) ==
  /\ error' = e
  /\ pc' = "done"

\* analyze_code testing "not code" instead of "not code.strip()"
AnalyzeCode_NoStrip ==
  /\ pc = "analyze_code"
  /\ IF code.text = <<>>
     THEN /\ Raise(CodeAnalysisError(EmptyMessage))
          /\ UNCHANGED lines
     ELSE /\ lines' = splitlines(code.text)
          /\ pc' = "parse_ast"
          /\ UNCHANGED error
  /\ UNCHANGED <<code, tree, total_complexity, todo, functions, result, parses>>
  /\ UNCHANGED others

\* analyze_code refusing every text without a line of code
AnalyzeCode_NoCode ==
  /\ pc = "analyze_code"
  /\ IF count_code_lines(splitlines(code.text)) = 0
     THEN /\ Raise(CodeAnalysisError(EmptyMessage))
          /\ UNCHANGED lines
     ELSE /\ lines' = splitlines(code.text)
          /\ pc' = "parse_ast"
          /\ UNCHANGED error
  /\ UNCHANGED <<code, tree, total_complexity, todo, functions, result, parses>>
  /\ UNCHANGED others

\* analyze_code: the emptiness check, then CodeAnalyzer(code)
AnalyzeCode ==
  /\ pc = "analyze_code"
  /\ IF strip(code.text) = <<>>
     THEN /\ Raise(CodeAnalysisError(EmptyMessage))
          /\ UNCHANGED lines
     ELSE /\ lines' = splitlines(code.text)
          /\ pc' = "parse_ast"
          /\ UNCHANGED error
  /\ UNCHANGED <<code, tree, total_complexity, todo, functions, result, parses>>
  /\ UNCHANGED others

\* analyze: tree = self.parse_ast()
ParseAst ==
  /\ pc = "parse_ast"
  /\ parses' = parses + 1
  /\ LET t == ast_parse(code)
     IN  IF t.exc = "none"
         THEN /\ tree' = t
              /\ pc' = "calculate_complexity"
              /\ UNCHANGED error
         ELSE /\ Raise(IF t.exc = "SyntaxError"
                       THEN CodeAnalysisError(SyntaxMessage(t.lineno, t.msg))
                       ELSE Uncaught(t))
              /\ UNCHANGED tree
  /\ UNCHANGED <<code, lines, total_complexity, todo, functions, result>>
  /\ UNCHANGED others

\* analyze: total_complexity = calculate_complexity(self.code)
TotalComplexity ==
  /\ pc = "calculate_complexity"
  /\ parses' = parses + 1
  /\ LET c == calculate_complexity(code)
     IN  IF c.exc = "none"
         THEN /\ total_complexity' = c.value
              /\ pc' = "extract_functions"
              /\ UNCHANGED error
         ELSE /\ Raise(IF c.exc = "SyntaxError"
                       THEN CodeAnalysisError(ComplexityMessage)
                       ELSE Uncaught(ast_parse(code)))
              /\ UNCHANGED total_complexity
  /\ UNCHANGED <<code, lines, tree, todo, functions, result>>
  /\ UNCHANGED others

\* extract_functions: functions = [], and the deque of ast.walk(tree)
ExtractFunctions ==
  /\ pc = "extract_functions"
  /\ functions' = <<>>
  /\ todo' = <<0>>
  /\ pc' = "walk"
  /\ UNCHANGED <<code, lines, tree, total_complexity, result, error, parses>>
  /\ UNCHANGED others

\* the loop of extract_functions putting each function in front of the list
WalkNode_Prepend ==
  /\ pc = "walk"
  /\ todo # <<>>
  /\ LET node == Head(todo)
     IN  /\ todo' = WalkRest(tree.nodes, todo)
         /\ functions' = IF KindOf(tree.nodes, node) = "FunctionDef"
                         THEN <<FunctionInfo(code, node)>> \o functions
                         ELSE functions
  /\ UNCHANGED <<code, pc, lines, tree, total_complexity, result, error, parses>>
  /\ UNCHANGED others

\* extract_functions: one turn of "for node in ast.walk(tree)"
WalkNode ==
  /\ pc = "walk"
  /\ todo # <<>>
  /\ LET node == Head(todo)
     IN  /\ todo' = WalkRest(tree.nodes, todo)
         /\ functions' = IF KindOf(tree.nodes, node) = "FunctionDef"
                         THEN Append(functions, FunctionInfo(code, node))
                         ELSE functions
  /\ UNCHANGED <<code, pc, lines, tree, total_complexity, result, error, parses>>
  /\ UNCHANGED others

\* analyze: the dictionary it returns
Return ==
  /\ pc = "walk"
  /\ todo = <<>>
  /\ result' = Metrics(lines, total_complexity, functions, tree.nodes)
  /\ pc' = "done"
  /\ UNCHANGED <<code, lines, tree, total_complexity, todo, functions, error, parses>>
  /\ UNCHANGED others

Next ==
  \/ AnalyzeCode
  \/ ParseAst
  \/ TotalComplexity
  \/ ExtractFunctions
  \/ WalkNode
  \/ Return

Spec == Init /\ [][Next]_vars

SpecFault == InitFault /\ [][Next]_vars

(***************************************************************************)
(* CodeAnalyzer(code).analyze() called directly, as the unit tests do,     *)
(* without going through analyze_code.                                     *)
(***************************************************************************)
InitDirect ==
  /\ Begin(Inputs, "CodeAnalyzer")
  /\ response = None
  /\ calls = <<>>
  /\ analyzers = <<>>
  /\ EmptyStore

\* a constructor that refuses blank text the way analyze_code does
Construct_Checked ==
  /\ pc = "CodeAnalyzer"
  /\ IF strip(code.text) = <<>>
     THEN /\ Raise(CodeAnalysisError(EmptyMessage))
          /\ UNCHANGED lines
     ELSE /\ lines' = splitlines(code.text)
          /\ pc' = "parse_ast"
          /\ UNCHANGED error
  /\ UNCHANGED <<code, tree, total_complexity, todo, functions, result, parses>>
  /\ UNCHANGED others

\* CodeAnalyzer.__init__: self.code = code, self.lines = code.splitlines()
Construct ==
  /\ pc = "CodeAnalyzer"
  /\ lines' = splitlines(code.text)
  /\ pc' = "parse_ast"
  /\ UNCHANGED <<code, tree, total_complexity, todo, functions, result, error, parses>>
  /\ UNCHANGED others

NextDirect ==
  \/ Construct
  \/ ParseAst
  \/ TotalComplexity
  \/ ExtractFunctions
  \/ WalkNode
  \/ Return

SpecDirect == InitDirect /\ [][NextDirect]_vars

(***************************************************************************)
(* POST /analyze (api/routes/analyze.py): the request model is validated,  *)
(* the handler calls analyze_code and turns its outcome into a response.   *)
(***************************************************************************)
HTTP_200_OK == 200

HTTP_400_BAD_REQUEST == 400

HTTP_422_UNPROCESSABLE_ENTITY == 422

HTTP_500_INTERNAL_SERVER_ERROR == 500

ValidationDetail == <<"El codigo no puede estar vacio">>

InternalDetail == <<"Error interno al analizar el codigo">>

HTTPException(code_, message) == [status |-> code_, detail |-> message]

\* AnalyzeResponse(**metrics), sent with the status of the route
AnalyzeResponse(metrics) == [status |-> HTTP_200_OK, body |-> metrics]

\* a handler without "except CodeAnalysisError": every failure is a 500
HttpResponse_AllInternal(res, err) ==
  IF res # None THEN AnalyzeResponse(res)
  ELSE HTTPException(HTTP_500_INTERNAL_SERVER_ERROR, InternalDetail)

\* the try / except of analyze_python_code
HttpResponse(res, err) ==
  IF res # None THEN AnalyzeResponse(res)
  ELSE IF err.type = "CodeAnalysisError"
  THEN HTTPException(HTTP_400_BAD_REQUEST, err.msg)
  ELSE HTTPException(HTTP_500_INTERNAL_SERVER_ERROR, InternalDetail)

InitApi ==
  /\ Begin(Inputs, "request")
  /\ response = None
  /\ calls = <<>>
  /\ analyzers = <<>>
  /\ EmptyStore

\* AnalyzeRequest with min_length=1 alone, without validate_code_not_empty
ValidateRequest_MinLengthOnly ==
  /\ pc = "request"
  /\ IF Len(code.text) < 1
     THEN /\ response' = HTTPException(HTTP_422_UNPROCESSABLE_ENTITY, ValidationDetail)
          /\ pc' = "responded"
     ELSE /\ pc' = "analyze_code"
          /\ UNCHANGED response
  /\ UNCHANGED <<code, lines, tree, total_complexity, todo, functions, result, error,
                 parses, calls, analyzers, projects, analyses, uuids, request>>

\* AnalyzeRequest: min_length=1 and validate_code_not_empty
ValidateRequest ==
  /\ pc = "request"
  /\ IF Len(code.text) < 1 \/ strip(code.text) = <<>>
     THEN /\ response' = HTTPException(HTTP_422_UNPROCESSABLE_ENTITY, ValidationDetail)
          /\ pc' = "responded"
     ELSE /\ pc' = "analyze_code"
          /\ UNCHANGED response
  /\ UNCHANGED <<code, lines, tree, total_complexity, todo, functions, result, error,
                 parses, calls, analyzers, projects, analyses, uuids, request>>

\* analyze_python_code after analyze_code came back: return or raise
Respond ==
  /\ pc = "done"
  /\ response' = HttpResponse(result, error)
  /\ pc' = "responded"
  /\ UNCHANGED <<code, lines, tree, total_complexity, todo, functions, result, error,
                 parses, calls, analyzers, projects, analyses, uuids, request>>

NextApi ==
  \/ ValidateRequest
  \/ AnalyzeCode
  \/ ParseAst
  \/ TotalComplexity
  \/ ExtractFunctions
  \/ WalkNode
  \/ Return
  \/ Respond

SpecApi == InitApi /\ [][NextApi]_vars

(***************************************************************************)
(* Several callers inside analyze_code at once (threads of one process).   *)
(* Each caller has a frame with the locals of analyze_code and of          *)
(* CodeAnalyzer.analyze / extract_functions; the CodeAnalyzer instances    *)
(* live in a heap, and a frame refers to its instance through self.        *)
(* Callers take turns statement by statement, in any order.                *)
(***************************************************************************)
Callers == {"a", "b", "c"}

CallKinds == {"FunctionDef", "If"}

CallInputs ==
  { Program(p, <<>>, TRUE, NoFault(p)) : p \in Programs(MaxCallNodes, CallKinds) }
    \cup { Malformed(<<>>, b, FALSE) : b \in BadLines }
    \cup {TooDeep}

\* the third caller runs one of two texts, a valid one and a malformed one
OtherInputs ==
  { Program(<<Node("If", 0, 0, FALSE)>>, <<>>, TRUE, <<>>),
    Malformed(<<>>, <<<<"d", "(">>, "'(' was never closed">>, FALSE) }

InputsOf(c) == IF c = "c" THEN OtherInputs ELSE CallInputs

NoAnalyzer == [code |-> None, lines |-> <<>>]

\* the frame of a caller that has not created its analyzer
NoSelf == "-"

\* the frame of a caller entering analyze_code(arg)
Frame(argument) ==
  [arg |-> argument, pc |-> "analyze_code", self |-> NoSelf, tree |-> None,
   total_complexity |-> 0, todo |-> <<>>, functions |-> <<>>,
   result |-> None, error |-> None]

\* one list for all calls, created once and never emptied
EmptyFunctions_Shared ==
  LET over == {c \in DOMAIN calls : calls[c].pc = "done"}
  IN  IF over = {} THEN <<>> ELSE calls[CHOOSE c \in over : TRUE].functions

\* extract_functions: functions = []
EmptyFunctions == <<>>

\* the next statement of a caller with frame fr whose instance is obj
AdvanceCall(fr, obj) ==
  CASE fr.pc = "analyze_code" ->
         IF strip(fr.arg.text) = <<>>
         THEN [frame |-> [fr EXCEPT !.error = CodeAnalysisError(EmptyMessage),
                                    !.pc = "done"],
               obj   |-> obj]
         ELSE [frame |-> [fr EXCEPT !.pc = "parse_ast"],
               obj   |-> [code |-> fr.arg, lines |-> splitlines(fr.arg.text)]]
    [] fr.pc = "parse_ast" ->
         LET t == ast_parse(obj.code)
         IN  [frame |-> IF t.exc = "none"
                        THEN [fr EXCEPT !.tree = t, !.pc = "calculate_complexity"]
                        ELSE [fr EXCEPT !.error = IF t.exc = "SyntaxError"
                                                  THEN CodeAnalysisError(
                                                         SyntaxMessage(t.lineno, t.msg))
                                                  ELSE Uncaught(t),
                                        !.pc = "done"],
              obj   |-> obj]
    [] fr.pc = "calculate_complexity" ->
         LET c == calculate_complexity(obj.code)
         IN  [frame |-> IF c.exc = "none"
                        THEN [fr EXCEPT !.total_complexity = c.value,
                                        !.pc = "extract_functions"]
                        ELSE [fr EXCEPT !.error = IF c.exc = "SyntaxError"
                                                  THEN CodeAnalysisError(ComplexityMessage)
                                                  ELSE Uncaught(ast_parse(obj.code)),
                                        !.pc = "done"],
              obj   |-> obj]
    [] fr.pc = "extract_functions" ->
         [frame |-> [fr EXCEPT !.functions = EmptyFunctions, !.todo = <<0>>,
                               !.pc = "walk"],
          obj   |-> obj]
    [] fr.pc = "walk" /\ fr.todo # <<>> ->
         LET node == Head(fr.todo)
         IN  [frame |-> [fr EXCEPT
                           !.todo = WalkRest(fr.tree.nodes, fr.todo),
                           !.functions =
                             IF KindOf(fr.tree.nodes, node) = "FunctionDef"
                             THEN Append(fr.functions, FunctionInfo(obj.code, node))
                             ELSE fr.functions],
              obj   |-> obj]
    [] fr.pc = "walk" /\ fr.todo = <<>> ->
         [frame |-> [fr EXCEPT
                       !.result = Metrics(obj.lines, fr.total_complexity,
                                          fr.functions, fr.tree.nodes),
                       !.pc = "done"],
          obj   |-> obj]
    [] OTHER -> [frame |-> fr, obj |-> obj]

\* one analyzer for the whole process instead of one per call
New_Singleton(c) == "a"

\* CodeAnalyzer(code): the instance created for the call of caller c
New(c) == c

InitCalls ==
  /\ Begin({TooDeep}, "idle")
  /\ response = None
  /\ calls \in [Callers -> UNION {{Frame(x) : x \in InputsOf(c)} : c \in Callers}]
  /\ \A c \in Callers : calls[c].arg \in InputsOf(c)
  /\ analyzers = [c \in Callers |-> NoAnalyzer]
  /\ EmptyStore

\* caller c runs its next statement
Call(c) ==
  /\ calls[c].pc # "done"
  /\ LET fr == calls[c]
         id == IF fr.self = NoSelf THEN New(c) ELSE fr.self
         nx == AdvanceCall(fr, analyzers[id])
     IN  /\ calls' = [calls EXCEPT ![c] =
                        [nx.frame EXCEPT !.self = IF nx.frame.pc = "parse_ast"
                                                  THEN id ELSE fr.self]]
         /\ analyzers' = [analyzers EXCEPT ![id] = nx.obj]
  /\ UNCHANGED <<code, pc, lines, tree, total_complexity, todo, functions, result,
                 error, parses, response, projects, analyses, uuids, request>>

NextCalls == \E c \in Callers : Call(c)

SpecCalls == InitCalls /\ [][NextCalls]_vars

(***************************************************************************)
(* The projects and analyses routers (projects/router.py,                  *)
(* analysis/router.py) over the tables "projects" and "analysis".  Every   *)
(* request runs in its own database session and is one step; the caller   *)
(* is the user get_current_active_user resolved from the token.  Of an     *)
(* analysis row the model keeps the ids, created_at and one metric,        *)
(* complexity; the other metrics are copied the same way.                  *)
(***************************************************************************)
MaxUuids == 3

HTTP_201_CREATED == 201

HTTP_204_NO_CONTENT == 204

HTTP_404_NOT_FOUND == 404

Users == {"u1", "u2"}

NoValue == "None"

\* ProjectCreate and ProjectUpdate bodies: <<name, description>>
ProjectCreates == {<<"n1", NoValue>>}

ProjectUpdates == {<<NoValue, NoValue>>, <<"n2", "d1">>}

Uuids == 1..MaxUuids

\* the complexity a save request carries; no handler decides on a metric
MetricValues == {1}

ProjectNotFound == <<"Proyecto no encontrado">>

AnalysisNotFound == <<"Analisis no encontrado">>

AnalysisIdNotFound(id) == <<"Analisis ">> \o str(id) \o <<" no encontrado">>

uuid4 == uuids + 1

\* datetime.now(timezone.utc): the clock ticks with every inserted row
now == uuids + 1

Project(id_, name_, description_, owner) ==
  [id |-> id_, name |-> name_, description |-> description_, owner_id |-> owner]

Analysis(id_, metric, project, user) ==
  [id |-> id_, complexity |-> metric, project_id |-> project, user_id |-> user,
   created_at |-> now]

\* select(Project).where(Project.id == ..., Project.owner_id == current_user.id)
\* a lookup by id alone
SelectProject_AnyOwner(project_id, user) ==
  {p \in projects : p.id = project_id}

SelectProject(project_id, user) ==
  {p \in projects : p.id = project_id /\ p.owner_id = user}

\* a lookup by id alone
SelectAnalysis_AnyUser(analysis_id, user) ==
  {a \in analyses : a.id = analysis_id}

\* select(Analysis).where(Analysis.id == ..., Analysis.user_id == current_user.id)
SelectAnalysis(analysis_id, user) ==
  {a \in analyses : a.id = analysis_id /\ a.user_id = user}

\* scalar_one_or_none() of a result that has a row
Scalar(rows) == CHOOSE r \in rows : TRUE

RECURSIVE order_by_created_at_desc(_)
order_by_created_at_desc(rows) ==
  IF rows = {} THEN <<>>
  ELSE LET first == CHOOSE a \in rows : \A b \in rows : b.created_at <= a.created_at
       IN  <<first>> \o order_by_created_at_desc(rows \ {first})

Request(op_, user_, ids_, data_) ==
  [op |-> op_, user |-> user_, ids |-> ids_, data |-> data_]

Reply(code_, content) == [status |-> code_, body |-> content]

\* what a request to these routers leaves alone
outside ==
  <<code, pc, lines, tree, total_complexity, todo, functions, result, error, parses,
    calls, analyzers>>

InitStore ==
  /\ Begin({TooDeep}, "idle")
  /\ response = None
  /\ calls = <<>>
  /\ analyzers = <<>>
  /\ EmptyStore

create_project(user, name_, description_) ==
  /\ uuids < MaxUuids
  /\ LET new_project == Project(uuid4, name_, description_, user)
     IN  /\ projects' = projects \cup {new_project}
         /\ response' = Reply(HTTP_201_CREATED, new_project)
  /\ uuids' = uuids + 1
  /\ request' = Request("create_project", user, <<>>, <<name_, description_>>)
  /\ UNCHANGED analyses
  /\ UNCHANGED outside

\* an update that finds the project by id alone and hands it to the caller
update_project_TakeOver(user, project_id, name_, description_) ==
  /\ request' = Request("update_project", user, <<project_id>>, <<name_, description_>>)
  /\ LET found == SelectProject_AnyOwner(project_id, user)
     IN  IF found = {}
         THEN /\ response' = HTTPException(HTTP_404_NOT_FOUND, ProjectNotFound)
              /\ UNCHANGED projects
         ELSE LET project == Scalar(found)
                  updated == [project EXCEPT !.owner_id = user]
              IN  /\ projects' = (projects \ {project}) \cup {updated}
                  /\ response' = Reply(HTTP_200_OK, updated)
  /\ UNCHANGED <<analyses, uuids>>
  /\ UNCHANGED outside

update_project(user, project_id, name_, description_) ==
  /\ request' = Request("update_project", user, <<project_id>>, <<name_, description_>>)
  /\ LET found == SelectProject(project_id, user)
     IN  IF found = {}
         THEN /\ response' = HTTPException(HTTP_404_NOT_FOUND, ProjectNotFound)
              /\ UNCHANGED projects
         ELSE LET project == Scalar(found)
                  updated ==
                    [project EXCEPT
                       !.name = IF name_ # NoValue THEN name_ ELSE @,
                       !.description = IF description_ # NoValue THEN description_ ELSE @]
              IN  /\ projects' = (projects \ {project}) \cup {updated}
                  /\ response' = Reply(HTTP_200_OK, updated)
  /\ UNCHANGED <<analyses, uuids>>
  /\ UNCHANGED outside

\* db.delete(project); the foreign key analysis.project_id is ON DELETE CASCADE
delete_project(user, project_id) ==
  /\ request' = Request("delete_project", user, <<project_id>>, <<>>)
  /\ LET found == SelectProject(project_id, user)
     IN  IF found = {}
         THEN /\ response' = HTTPException(HTTP_404_NOT_FOUND, ProjectNotFound)
              /\ UNCHANGED <<projects, analyses>>
         ELSE /\ projects' = projects \ found
              /\ analyses' = {a \in analyses : a.project_id # project_id}
              /\ response' = Reply(HTTP_204_NO_CONTENT, None)
  /\ UNCHANGED uuids
  /\ UNCHANGED outside

\* a handler that only checks that the project exists
save_analysis_AnyProject(user, project_id, metric) ==
  /\ request' = Request("save_analysis", user, <<project_id>>, <<metric>>)
  /\ IF SelectProject_AnyOwner(project_id, user) = {}
     THEN /\ response' = HTTPException(HTTP_404_NOT_FOUND, ProjectNotFound)
          /\ UNCHANGED <<analyses, uuids>>
     ELSE /\ uuids < MaxUuids
          /\ LET new_analysis == Analysis(uuid4, metric, project_id, user)
             IN  /\ analyses' = analyses \cup {new_analysis}
                 /\ response' = Reply(HTTP_201_CREATED, new_analysis)
          /\ uuids' = uuids + 1
  /\ UNCHANGED projects
  /\ UNCHANGED outside

save_analysis(user, project_id, metric) ==
  /\ request' = Request("save_analysis", user, <<project_id>>, <<metric>>)
  /\ IF SelectProject(project_id, user) = {}
     THEN /\ response' = HTTPException(HTTP_404_NOT_FOUND, ProjectNotFound)
          /\ UNCHANGED <<analyses, uuids>>
     ELSE /\ uuids < MaxUuids
          /\ LET new_analysis == Analysis(uuid4, metric, project_id, user)
             IN  /\ analyses' = analyses \cup {new_analysis}
                 /\ response' = Reply(HTTP_201_CREATED, new_analysis)
          /\ uuids' = uuids + 1
  /\ UNCHANGED projects
  /\ UNCHANGED outside

list_project_analyses(user, project_id) ==
  /\ request' = Request("list_project_analyses", user, <<project_id>>, <<>>)
  /\ response' =
       IF SelectProject(project_id, user) = {}
       THEN HTTPException(HTTP_404_NOT_FOUND, ProjectNotFound)
       ELSE Reply(HTTP_200_OK,
                  order_by_created_at_desc({a \in analyses : a.project_id = project_id}))
  /\ UNCHANGED <<projects, analyses, uuids>>
  /\ UNCHANGED outside

get_analysis(user, analysis_id) ==
  /\ request' = Request("get_analysis", user, <<analysis_id>>, <<>>)
  /\ LET found == SelectAnalysis(analysis_id, user)
     IN  response' = IF found = {}
                     THEN HTTPException(HTTP_404_NOT_FOUND, AnalysisNotFound)
                     ELSE Reply(HTTP_200_OK, Scalar(found))
  /\ UNCHANGED <<projects, analyses, uuids>>
  /\ UNCHANGED outside

delete_analysis(user, analysis_id) ==
  /\ request' = Request("delete_analysis", user, <<analysis_id>>, <<>>)
  /\ LET found == SelectAnalysis(analysis_id, user)
     IN  IF found = {}
         THEN /\ response' = HTTPException(HTTP_404_NOT_FOUND, AnalysisNotFound)
              /\ UNCHANGED analyses
         ELSE /\ analyses' = analyses \ {Scalar(found)}
              /\ response' = Reply(HTTP_204_NO_CONTENT, None)
  /\ UNCHANGED <<projects, uuids>>
  /\ UNCHANGED outside

compare_analyses(user, id1, id2) ==
  /\ request' = Request("compare_analyses", user, <<id1, id2>>, <<>>)
  /\ LET found1 == SelectAnalysis(id1, user)
         found2 == SelectAnalysis(id2, user)
     IN  response' =
           IF found1 = {}
           THEN HTTPException(HTTP_404_NOT_FOUND, AnalysisIdNotFound(id1))
           ELSE IF found2 = {}
           THEN HTTPException(HTTP_404_NOT_FOUND, AnalysisIdNotFound(id2))
           ELSE LET analysis1 == Scalar(found1)
                    analysis2 == Scalar(found2)
                IN  Reply(HTTP_200_OK,
                          [analysis1 |-> analysis1,
                           analysis2 |-> analysis2,
                           differences |->
                             [complexity_diff |->
                                analysis2.complexity - analysis1.complexity]])
  /\ UNCHANGED <<projects, analyses, uuids>>
  /\ UNCHANGED outside

NextStore ==
  \/ \E user \in Users, project_data \in ProjectCreates :
       create_project(user, project_data[1], project_data[2])
  \/ \E user \in Users, project_id \in Uuids, project_data \in ProjectUpdates :
       update_project(user, project_id, project_data[1], project_data[2])
  \/ \E user \in Users, project_id \in Uuids : delete_project(user, project_id)
  \/ \E user \in Users, project_id \in Uuids, metric \in MetricValues :
       save_analysis(user, project_id, metric)
  \/ \E user \in Users, project_id \in Uuids : list_project_analyses(user, project_id)
  \/ \E user \in Users, analysis_id \in Uuids : get_analysis(user, analysis_id)
  \/ \E user \in Users, analysis_id \in Uuids : delete_analysis(user, analysis_id)
  \/ \E user \in Users, id1 \in Uuids, id2 \in Uuids : compare_analyses(user, id1, id2)

SpecStore == InitStore /\ [][NextStore]_vars

(***************************************************************************)
(* Properties.  The decision points of a set of nodes are counted here     *)
(* kind by kind over the set, not by descending the tree.                  *)
(***************************************************************************)
KindCount(nodes, S, kd) == Cardinality({j \in S : KindOf(nodes, j) = kd})

RECURSIVE ExtraOperands(_, _)
ExtraOperands(nodes, B) ==
  IF B = {} THEN 0
  ELSE LET j == CHOOSE x \in B : TRUE
       IN  (nodes[j].k - 1) + ExtraOperands(nodes, B \ {j})

DecisionPoints(nodes, S) ==
  KindCount(nodes, S, "If") + KindCount(nodes, S, "For")
    + KindCount(nodes, S, "While") + KindCount(nodes, S, "ExceptHandler")
    + ExtraOperands(nodes, {j \in S : KindOf(nodes, j) = "BoolOp"})
    + KindCount(nodes, S, "comprehension")

IsBlank(text) == \A n \in 1 .. Len(text) : text[n] \in {" ", "\n", "\t", "\f"}

Returned == pc = "done" /\ result # None

Failed == pc = "done" /\ error # None

MetricsFields ==
  {"total_lines", "code_lines", "complexity", "num_functions", "num_classes",
   "num_imports", "functions"}

\* C1: whenever analyze_code returns a result, its complexity is at least 1
\* and num_functions is the length of the functions list.
C1_ComplexityAndCount ==
  result # None =>
    /\ result.complexity >= 1
    /\ result.num_functions = Len(result.functions)

C1_Witness ==
  /\ Returned
  /\ result.num_functions >= 2
  /\ result.complexity >= 2

\* C2: the functions list is in source order: a function whose definition
\* starts on an earlier line comes earlier in the list.
C2_SourceOrder ==
  result # None =>
    \A a, b \in 1 .. Len(result.functions) :
      result.functions[a].line_start < result.functions[b].line_start => a < b

\* C3 as stated: the complexity recorded for a function is 1 plus the decision
\* points of the whole subtree of its definition node.
C3_WholeSubtree ==
  result # None =>
    \A m \in 1 .. Len(result.functions) :
      LET f == result.functions[m]
      IN  f.complexity = 1 + DecisionPoints(tree.nodes, Subtree(tree.nodes, f.name))

\* C3 as amended: the complexity recorded for a function is 1 plus the decision
\* points of its source segment, which runs from the def keyword to the end of
\* the body: the subtree of the node without the function's own decorators.  It
\* depends on nothing outside that segment.
C3_SourceSegment ==
  result # None =>
    \A m \in 1 .. Len(result.functions) :
      LET f == result.functions[m]
      IN  f.complexity = 1 + DecisionPoints(tree.nodes, SegmentIds(tree.nodes, f.name))

C3_Witness ==
  /\ Returned
  /\ \E m \in 1 .. Len(result.functions) :
       LET f == result.functions[m]
       IN  /\ f.complexity >= 2
           /\ f.complexity < result.complexity
           /\ \E d \in DecoIds(tree.nodes) :
                tree.nodes[d].parent = f.name /\ tree.nodes[d].kind = "BoolOp"

\* C4: the complexity of a node is 1 + the if nodes + the for nodes + the while
\* nodes + the exception handlers + (operands - 1) of every boolean operator +
\* the comprehension clauses of its subtree, at any depth, each counted once.
C4_ComplexityFormula ==
  /\ tree # None =>
       \A i \in Ids(tree.nodes) :
         ComplexityVisitorInit + visit(tree.nodes, i)
           = 1 + DecisionPoints(tree.nodes, Subtree(tree.nodes, i))
  /\ result # None =>
       result.complexity = 1 + DecisionPoints(tree.nodes, Ids(tree.nodes))

C4_Witness ==
  /\ Returned
  /\ result.complexity >= 4
  /\ \E i, j \in 1 .. Len(tree.nodes) :
       /\ tree.nodes[j].parent = i
       /\ tree.nodes[i].kind \in {"If", "For", "While", "ExceptHandler"}
       /\ tree.nodes[j].kind = "BoolOp"

\* C5: on an empty or whitespace-only text analyze_code fails with the
\* empty-input error, returns nothing, and the parser is never run.
C5_EmptyInput ==
  IsBlank(code.text) =>
    /\ parses = 0
    /\ result = None
    /\ pc = "done" => error = CodeAnalysisError(EmptyMessage)

C5_Witness ==
  /\ pc = "done"
  /\ code.text # <<>>
  /\ IsBlank(code.text)
  /\ error = CodeAnalysisError(EmptyMessage)

\* the line number written in a syntax-error message
DigitValue(c) == CHOOSE d \in 0 .. 9 : Digit(d) = c

RECURSIVE int(_)
int(ds) ==
  IF Len(ds) = 1 THEN DigitValue(ds[1])
  ELSE 10 * int(SubSeq(ds, 1, Len(ds) - 1)) + DigitValue(ds[Len(ds)])

\* C6: when the parser rejects a non-blank text, analyze_code fails with the
\* syntax error, which carries the parser's line number and message unchanged,
\* and returns no metrics.
C6_SyntaxError ==
  (pc = "done" /\ ~ IsBlank(code.text) /\ ast_parse(code).exc = "SyntaxError") =>
    /\ result = None
    /\ error # None
    /\ error.type = "CodeAnalysisError"
    /\ Len(error.msg) >= 4
    /\ error.msg[1] = "Error de sintaxis en linea "
    /\ int(SubSeq(error.msg, 2, Len(error.msg) - 2)) = ast_parse(code).lineno
    /\ error.msg[Len(error.msg) - 1] = ": "
    /\ error.msg[Len(error.msg)] = ast_parse(code).msg

C6_Witness ==
  /\ Failed
  /\ ast_parse(code).exc = "SyntaxError"
  /\ ast_parse(code).lineno >= 2
  /\ error.msg[Len(error.msg)] = "unexpected indent"

\* C7: every failure of analyze_code is the empty-input error or the syntax
\* error, told apart by the error value; there is no third outcome.
C7_TwoErrorKinds ==
  error # None =>
    /\ error.type = "CodeAnalysisError"
    /\ \/ error.msg = EmptyMessage
       \/ error.msg[1] = "Error de sintaxis en linea "

\* C8: a call ends either with a record holding all seven fields and no
\* error, or with an error and no record; before it ends nothing is returned.
C8_AllOrNothing ==
  /\ pc # "done" => result = None /\ error = None
  /\ pc = "done" =>
       \/ /\ result # None
          /\ error = None
          /\ DOMAIN result = MetricsFields
       \/ /\ result = None
          /\ error # None

C8_Witness ==
  /\ Returned
  /\ result.num_classes >= 1
  /\ result.num_imports >= 1

\* C9: when re-analysing the source segment of a function fails, that function
\* is listed with complexity 1, the others keep their computed complexity,
\* and the call returns the whole record instead of failing.
C9_Fallback ==
  (pc = "done" /\ ~ IsBlank(code.text)) =>
    /\ error = None
    /\ result # None
    /\ DOMAIN result = MetricsFields
    /\ Len(result.functions) = Cardinality(FunctionIds(tree.nodes))
    /\ \A m \in 1 .. Len(result.functions) :
         LET f == result.functions[m]
         IN  f.complexity =
               IF code.fault[f.name] = "ok"
               THEN 1 + DecisionPoints(tree.nodes, SegmentIds(tree.nodes, f.name))
               ELSE 1

C9_Witness ==
  /\ Returned
  /\ \E a, b \in 1 .. Len(result.functions) :
       LET f == result.functions[a]
           g == result.functions[b]
       IN  /\ code.fault[f.name] # "ok"
           /\ DecisionPoints(tree.nodes, SegmentIds(tree.nodes, f.name)) >= 1
           /\ f.complexity = 1
           /\ code.fault[g.name] = "ok"
           /\ g.complexity >= 2

\* C10: code_lines <= total_lines, in the result and in the counts of the
\* line classifier for any text, the empty text included.
C10_CodeLinesBound ==
  /\ count_code_lines(splitlines(code.text)) <= count_total_lines(splitlines(code.text))
  /\ result # None => result.code_lines <= result.total_lines

C10_Witness ==
  /\ Returned
  /\ result.code_lines >= 1
  /\ result.code_lines < result.total_lines

(***************************************************************************)
(* C13: the whole-program complexity counts the decision points of the     *)
(* whole tree: 1, plus those at module level, plus those inside the bodies *)
(* (and decorators) of functions and classes, at any depth.                *)
(***************************************************************************)
DefinitionKinds == {"FunctionDef", "AsyncFunctionDef", "ClassDef"}

InsideDefinitions(nodes) ==
  { j \in 1 .. Len(nodes) :
      \E a \in 1 .. Len(nodes) :
        /\ a # j
        /\ nodes[a].kind \in DefinitionKinds
        /\ IsAncestorOrSelf(nodes, a, j) }

C13_EveryDecisionPoint ==
  Returned =>
    LET inside == InsideDefinitions(tree.nodes)
    IN  result.complexity
          = 1 + DecisionPoints(tree.nodes, Ids(tree.nodes) \ inside)
              + DecisionPoints(tree.nodes, inside)

\* an if inside a method of a class has been counted
C13_Witness ==
  /\ Returned
  /\ \E j \in 1 .. Len(tree.nodes) :
       /\ tree.nodes[j].kind = "If"
       /\ KindOf(tree.nodes, tree.nodes[j].parent) = "FunctionDef"
       /\ KindOf(tree.nodes, tree.nodes[tree.nodes[j].parent].parent) = "ClassDef"
  /\ result.complexity = 2

ImportIds(nodes) == {j \in 1 .. Len(nodes) : nodes[j].kind \in {"Import", "ImportFrom"}}

C15_ImportStatements ==
  Returned => result.num_imports = Cardinality(ImportIds(tree.nodes))

\* an import of two names inside a function has been counted once
C15_Witness ==
  /\ Returned
  /\ result.num_imports = 1
  /\ \E j \in ImportIds(tree.nodes) :
       /\ tree.nodes[j].k = 2
       /\ KindOf(tree.nodes, tree.nodes[j].parent) = "FunctionDef"

(***************************************************************************)
(* C16: num_classes is the number of ClassDef nodes of the tree, nested    *)
(* classes included, whatever the classes hold.                            *)
(***************************************************************************)
ClassIds(nodes) == {j \in 1 .. Len(nodes) : nodes[j].kind = "ClassDef"}

C16_ClassDefinitions ==
  Returned => result.num_classes = Cardinality(ClassIds(tree.nodes))

\* a class with a method and a class nested in that class: two classes
C16_Witness ==
  /\ Returned
  /\ result.num_classes = 2
  /\ result.num_functions = 1
  /\ \E c, d \in ClassIds(tree.nodes), f \in FunctionIds(tree.nodes) :
       /\ tree.nodes[d].parent = c
       /\ tree.nodes[f].parent = c

(***************************************************************************)
(* C17: every FunctionInfo of a result has line_start >= 1,                *)
(* line_end >= line_start and complexity >= 1; line_start is the 1-based   *)
(* line of the text that holds the def keyword of the function; line_end   *)
(* is the end line the parser gave, and line_start when it gave none.      *)
(***************************************************************************)
C17_FunctionInfoBounds ==
  Returned =>
    \A n \in 1 .. Len(result.functions) :
      LET f    == result.functions[n]
          node == tree.nodes[f.name]
          ls   == SplitFrom(code.text, <<>>, {"\n"})
      IN  /\ f.line_start >= 1
          /\ f.line_end >= f.line_start
          /\ f.complexity >= 1
          /\ f.line_start <= Len(ls)
          /\ startswith(lstrip(ls[f.line_start]), "d")
          /\ f.line_end = IF node.end_lineno = 0 THEN f.line_start ELSE node.end_lineno

\* a function of several lines whose node has no end line, inside one whose
\* node has it
C17_Witness ==
  /\ Returned
  /\ \E n, m \in 1 .. Len(result.functions) :
       LET f == result.functions[n]
           g == result.functions[m]
       IN  /\ tree.nodes[f.name].end_lineno = 0
           /\ \E j \in Subtree(tree.nodes, f.name) : tree.nodes[j].lineno > f.line_start
           /\ f.line_end = f.line_start
           /\ f.line_start >= 2
           /\ g.line_end > g.line_start

(***************************************************************************)
(* C18: code_lines is the number of line segments of the text whose first  *)
(* character that is not white space exists and is not "#": blank lines    *)
(* and comment lines are left out, a line with code and then a "#" comment *)
(* is counted.  The segments are counted as a set of positions.            *)
(***************************************************************************)
IsCodeLine(seg) ==
  \E m \in 1 .. Len(seg) :
    /\ seg[m] \notin {" ", "\t", "\f", "\n", "#"}
    /\ \A b \in 1 .. m - 1 : seg[b] \in {" ", "\t", "\f", "\n"}

C18_CodeLines ==
  Returned =>
    /\ lines = splitlines(code.text)
    /\ result.code_lines = Cardinality({n \in 1 .. Len(lines) : IsCodeLine(lines[n])})

\* a line with code followed by a comment has been counted
C18_Witness ==
  /\ Returned
  /\ result.code_lines = Len(lines)
  /\ \E n \in 1 .. Len(lines) :
       /\ IsCodeLine(lines[n])
       /\ \E m \in 1 .. Len(lines[n]) : lines[n][m] = "#"

(***************************************************************************)
(* C19: total_lines is the number of newline-separated segments of the     *)
(* text, blank and comment lines included, a final newline ending the last *)
(* line without adding a segment: the number of newlines, plus one when    *)
(* characters follow the last newline.                                     *)
(***************************************************************************)
NewlineSegments(text) ==
  Cardinality({n \in 1 .. Len(text) : text[n] = "\n"})
    + (IF text # <<>> /\ text[Len(text)] # "\n" THEN 1 ELSE 0)

C19_NewlineSegments ==
  Returned => result.total_lines = NewlineSegments(code.text)

(***************************************************************************)
(* C20: POST /analyze answers 400 with the error's message as detail       *)
(* whenever analyze_code raised CodeAnalysisError, 500 whenever it raised  *)
(* anything else, and 200 only with the complete metrics record that       *)
(* analyze_code returned; a text the parser rejects for its syntax never   *)
(* gets a 200.                                                             *)
(***************************************************************************)
C20_StatusMapping ==
  /\ pc # "responded" => response = None
  /\ pc = "responded" =>
       /\ (error # None /\ error.type = "CodeAnalysisError") =>
            /\ response.status = 400
            /\ response.detail = error.msg
            /\ response.detail # <<>>
       /\ (error # None /\ error.type # "CodeAnalysisError") => response.status = 500
       /\ response.status = 200 =>
            /\ result # None
            /\ error = None
            /\ response.body = result
            /\ DOMAIN response.body = MetricsFields
       /\ code.parsed.exc = "SyntaxError" => response.status = 400

\* a text with a syntax error has been answered with 400 and the message
C20_Witness ==
  /\ pc = "responded"
  /\ code.parsed.exc = "SyntaxError"
  /\ error # None
  /\ response = [status |-> 400, detail |-> error.msg]

(***************************************************************************)
(* What a call hands back, and what it hands back when it runs with no     *)
(* other call around.                                                      *)
(***************************************************************************)
Outcome(fr) == [result |-> fr.result, error |-> fr.error]

RECURSIVE RunAlone(_, _)
RunAlone(fr, obj) ==
  IF fr.pc = "done" THEN fr
  ELSE LET nx == AdvanceCall(fr, obj) IN RunAlone(nx.frame, nx.obj)

Alone(argument) == Outcome(RunAlone(Frame(argument), NoAnalyzer))

C12_NoInterference ==
  \A c \in DOMAIN calls :
    /\ calls[c].pc = "done" => Outcome(calls[c]) = Alone(calls[c].arg)
    /\ calls[c].self # NoSelf =>
         /\ analyzers[calls[c].self].code = calls[c].arg
         /\ analyzers[calls[c].self].lines = splitlines(calls[c].arg.text)

\* a call has returned its result while two calls on other texts were under way
C12_Witness ==
  /\ DOMAIN calls = Callers
  /\ calls["a"].pc = "done"
  /\ calls["a"].result # None
  /\ calls["b"].pc = "walk"
  /\ calls["c"].pc = "parse_ast"
  /\ calls["a"].arg.text # calls["b"].arg.text
  /\ calls["a"].arg.text # calls["c"].arg.text
  /\ calls["b"].arg.text # calls["c"].arg.text

(***************************************************************************)
(* C21: POST /analyze with an empty or white-space-only code is answered   *)
(* 422 by the validation of the request, before analyze_code runs; the     *)
(* empty-input error of analyze_code is never raised behind the endpoint.  *)
(***************************************************************************)
C21_BlankRejectedByValidation ==
  /\ error # CodeAnalysisError(EmptyMessage)
  /\ IsBlank(code.text) =>
       /\ pc \in {"request", "responded"}
       /\ lines = <<>> /\ parses = 0 /\ result = None /\ error = None
       /\ pc = "responded" => response.status = 422
  /\ (pc = "responded" /\ response.status = 422) => IsBlank(code.text)

\* a text of white space only has been answered 422
C21_Witness ==
  /\ pc = "responded"
  /\ code.text # <<>>
  /\ IsBlank(code.text)
  /\ response.status = 422
  /\ parses = 0

(***************************************************************************)
(* C24: in the functions list a function nested, directly or through other *)
(* nodes, inside another function comes after the function that encloses   *)
(* it.                                                                     *)
(***************************************************************************)
C24_OuterBeforeInner ==
  Returned =>
    \A n, m \in 1 .. Len(result.functions) :
      LET outer == result.functions[n].name
          inner == result.functions[m].name
      IN  (outer # inner /\ IsAncestorOrSelf(tree.nodes, outer, inner)) => n < m

\* a function nested in a function through an if: both listed, the outer first
C24_Witness ==
  /\ Returned
  /\ Len(result.functions) = 2
  /\ LET outer == result.functions[1].name
         inner == result.functions[2].name
     IN  /\ KindOf(tree.nodes, tree.nodes[inner].parent) = "If"
         /\ tree.nodes[tree.nodes[inner].parent].parent = outer

(***************************************************************************)
(* C25: when the program is one function definition and nothing else (no   *)
(* statement beside it, no other function or class inside it), the         *)
(* whole-program complexity equals the complexity of that function.        *)
(* Stated as claimed, for every such program, decorated or not.            *)
(***************************************************************************)
SingleFunction(nodes) ==
  /\ nodes # <<>>
  /\ nodes[1].kind = "FunctionDef"
  /\ \A j \in 2 .. Len(nodes) :
       /\ IsAncestorOrSelf(nodes, 1, j)
       /\ nodes[j].kind \notin DefinitionKinds

DecoratorIds(nodes, i) ==
  { j \in 1 .. Len(nodes) :
      \E d \in DecoIds(nodes) : nodes[d].parent = i /\ IsAncestorOrSelf(nodes, d, j) }

Encloses(nodes, outer, inner) ==
  outer # inner /\ IsAncestorOrSelf(nodes, outer, inner)

C26_Monotone ==
  Returned =>
    \A n, m \in 1 .. Len(result.functions) :
      LET f == result.functions[n]
          g == result.functions[m]
      IN  /\ result.complexity >= f.complexity
          /\ Encloses(tree.nodes, f.name, g.name) => f.complexity >= g.complexity

\* C26 as the code has it: the second inequality needs the enclosing
\* function's own score to have been computed; when its segment could not
\* be analysed it is listed with 1, whatever the functions inside it score.
C26_MonotoneUnlessFallback ==
  Returned =>
    \A n, m \in 1 .. Len(result.functions) :
      LET f == result.functions[n]
          g == result.functions[m]
      IN  /\ result.complexity >= f.complexity
          /\ result.complexity >= 1 + DecisionPoints(tree.nodes, SegmentIds(tree.nodes, f.name))
          /\ (Encloses(tree.nodes, f.name, g.name) /\ code.fault[f.name] = "ok")
               => f.complexity >= g.complexity

\* an if inside a function inside a function: counted in both and in the whole
C26_Witness ==
  /\ Returned
  /\ Len(result.functions) = 2
  /\ \A i \in DOMAIN code.fault : code.fault[i] = "ok"
  /\ Encloses(tree.nodes, result.functions[1].name, result.functions[2].name)
  /\ result.functions[2].complexity = 2
  /\ result.functions[1].complexity = 2
  /\ result.complexity = 2

(***************************************************************************)
(* C27: analyze parses the text twice, in parse_ast and again in           *)
(* calculate_complexity; when the first parse succeeds so does the second, *)
(* so "Error al calcular complejidad" is never raised and every            *)
(* CodeAnalysisError of analyze is the syntax error of parse_ast.          *)
(***************************************************************************)
C27_SecondParseSucceeds ==
  /\ error # CodeAnalysisError(ComplexityMessage)
  /\ parses <= 2
  /\ parses = 2 => (error = None /\ tree # None /\ pc # "calculate_complexity")
  /\ (error # None /\ error.type = "CodeAnalysisError" /\ parses >= 1) =>
       /\ parses = 1
       /\ tree = None
       /\ code.parsed.exc = "SyntaxError"
       /\ error.msg = SyntaxMessage(code.parsed.lineno, code.parsed.msg)

\* a result returned after both parses of a text with statements
C27_Witness ==
  /\ Returned
  /\ parses = 2
  /\ Len(tree.nodes) >= 1
  /\ code.text[Len(code.text)] # "\n"

OnlyComments(text) ==
  /\ ~ IsBlank(text)
  /\ \A n \in 1 .. Len(splitlines(text)) : ~ IsCodeLine(splitlines(text)[n])

Requested(op_) == request' # None /\ request'.op = op_

OwnsProject(user, project_id) ==
  \E p \in projects : p.id = project_id /\ p.owner_id = user

\* C23: save_analysis stores a new analysis only when the referenced project
\* exists and its owner_id is the caller's id; the stored analysis then has
\* user_id equal to the caller and project_id equal to that project, and the
\* response is 201 with that analysis; otherwise the request returns 404 and
\* no analysis is stored.
C23_SaveOnlyIntoOwnProject ==
  [][Requested("save_analysis") =>
       LET caller == request'.user
           project_id == request'.ids[1]
       IN  IF OwnsProject(caller, project_id)
           THEN \E a \in analyses' :
                  /\ a \notin analyses
                  /\ analyses' = analyses \cup {a}
                  /\ a.user_id = caller
                  /\ a.project_id = project_id
                  /\ response' = Reply(HTTP_201_CREATED, a)
           ELSE /\ response'.status = HTTP_404_NOT_FOUND
                /\ analyses' = analyses]_vars

\* an analysis was just stored while another user's project exists too
C23_Witness ==
  /\ request # None
  /\ request.op = "save_analysis"
  /\ response.status = HTTP_201_CREATED
  /\ response.body \in analyses
  /\ response.body.user_id = request.user
  /\ \E p \in projects : p.owner_id # request.user

\* the stored analyses with this id that belong to this user
OwnAnalyses(user, analysis_id) ==
  {a \in analyses : a.id = analysis_id /\ a.user_id = user}

C30_AnalysisOwnerIsProjectOwner ==
  /\ [](/\ \A a \in analyses : OwnsProject(a.user_id, a.project_id)
        /\ (request # None /\ request.op = "list_project_analyses"
              /\ response.status = HTTP_200_OK) =>
             \A i \in 1..Len(response.body) : response.body[i].user_id = request.user)
  /\ [][Requested("update_project") =>
          \A p \in projects : \A q \in projects' :
            q.id = p.id => q.owner_id = p.owner_id]_vars

\* a user lists the analyses of a project that was updated after analyses
\* were saved into it
C30_Witness ==
  /\ request # None
  /\ request.op = "list_project_analyses"
  /\ response.status = HTTP_200_OK
  /\ Len(response.body) >= 1
  /\ \E p \in projects : p.id = request.ids[1] /\ p.name = "n2"

============================================================================
